---------------------------- MODULE Spec2Model ----------------------------
(***************************************************************************)
(* Model of the playback controller of react-mp3-player:                   *)
(*   src/src/hooks/useAudioPlayer.js  (the hook: session state, transport  *)
(*   commands, playlist, media event handlers)                             *)
(*   src/src/index.js                 (URL helpers, navigation helpers)    *)
(*                                                                         *)
(* Every handler of the hook runs to completion on the UI thread, so one   *)
(* handler is one action.  A handler reads the state of the render it was  *)
(* created in (the unprimed variables) and its setState calls produce the  *)
(* next state (the primed variables).  The HTMLMediaElement the hook owns  *)
(* (audioRef.current) is modelled by the a* variables; its events are      *)
(* queued by the element and delivered later as separate actions.          *)
(***************************************************************************)
EXTENDS Integers, Sequences, FiniteSets, Bags, TLC

(* ------------------------------ bounds --------------------------------- *)

\* number of tracks ever added to the playlist during one run
MaxTracks == 3

\* number of play() promises that may be outstanding at once
MaxPending == 1

\* largest time asked of seek(); the sources last 1 or 2 units
MaxSeek == 3

\* longest playlist handed to the navigation utilities of index.js
MaxLen == 3

(* ----------------------------- constants ------------------------------- *)

\* audio.duration before the metadata of the current source is known
NaN == -1

\* useState(null) of error
Null == "null"

\* useState(null) of currentTrack
NoTrack == [id |-> 0, url |-> 0]

LoadErrorMsg == "Failed to load audio file"

\* what a read beyond the ends of an array yields, and what a function
\* without a return statement returns
Undefined == -2

\* no call of a navigation utility was made yet
NoResult == -3

PlayErrorMsg == "Failed to play audio"

(* ------------------------------- state ---------------------------------- *)

VARIABLES
  \* hook state (useState)
  isPlaying, isLoading, isBuffering, duration, currentTime,
  volume, isMuted, playbackRate,
  currentTrack, playlist, currentTrackIndex, error,
  \* media element (audioRef.current)
  aSrc,        \* url assigned to audio.src, 0 when none
  aPhase,      \* progress of the current load, see Phases
  aPaused,     \* audio.paused
  aTime,       \* audio.currentTime
  aDuration,   \* audio.duration
  aVolume, aMuted, aRate,
  vcPending,   \* a volumechange event is queued
  promises,    \* outcomes of the outstanding audio.play() promises, oldest first
  tuPending,   \* a timeupdate event is queued
  endedPending,\* an ended event is queued
  staleMeta,   \* a loadedmetadata callback of a superseded load is still in flight
  \* environment
  nextId,      \* next fresh track id (Date.now() + Math.random())
  revoked,     \* bag of the object URLs passed to URL.revokeObjectURL
  \* arguments and result of the navigation utilities of index.js
  currentIndex,    \* currentIndex
  totalTracks,     \* totalTracks
  shuffle,         \* shuffle
  shuffledIndices, \* shuffledIndices, a sequence (index k of the array is k + 1)
  navResult,       \* value returned by the last call, NoResult before it
  \* the AudioPlayer component: its props, its <audio> element and its state
  propTrack,          \* url of the currentTrack prop, 0 when it is null
  propIsPlaying,      \* the isPlaying prop of the last render
  capturedIsPlaying,  \* isPlaying as the listeners of the track effect see it
  elPhase,            \* progress of the load of the component's element
  elPaused,           \* paused attribute of the component's element
  elTime,             \* currentTime of the component's element
  viewLoading,        \* isLoading state of the component
  viewError,          \* error state of the component
  viewMuted,          \* isMuted state of the component
  elVolume,           \* volume of the component's element, in tenths
  \* one call of extractMetadata(file)
  file,          \* the argument
  probeUrl,      \* the object URL created for the probe, 0 before the call
  listeners,     \* the events of the probe element that have a listener
  probePhase,    \* "idle" before the call, then the progress of the probe
  resolveCalls,  \* number of calls of resolve
  metadata       \* the value the promise is fulfilled with

hookVars == <<isPlaying, isLoading, isBuffering, duration, currentTime,
              currentTrack, playlist, currentTrackIndex, error>>

attrVars == <<volume, isMuted, playbackRate, aVolume, aMuted, aRate,
              vcPending>>

mediaVars == <<aSrc, aPhase, aPaused, aTime, aDuration, promises,
               tuPending, endedPending, staleMeta>>

navVars == <<currentIndex, totalTracks, shuffle, shuffledIndices, navResult>>

viewVars == <<propTrack, propIsPlaying, capturedIsPlaying, elPhase, elPaused,
              elTime, viewLoading, viewError, viewMuted, elVolume>>

probeVars == <<file, probeUrl, listeners, probePhase, resolveCalls, metadata>>

vars == <<hookVars, attrVars, mediaVars, nextId, revoked, navVars, viewVars,
          probeVars>>

Phases == {"empty", "loadstart", "loading", "metadata", "canplay", "error"}

(* ------------------------------ helpers --------------------------------- *)

Max(a, b) == IF a >= b THEN a ELSE b

Min(a, b) == IF a <= b THEN a ELSE b

\* a track descriptor as App.js builds it (id, url; the other fields are not read)
Track(i) == [id |-> i, url |-> i]

\* the duration the element reports for a source once its metadata is loaded
DurationOf(url) == 1 + (url % 2)

\* playlist[i] with the 0-based index of the source
At(pl, i) == pl[i + 1]

\* prev.filter(track => track.id !== trackId)
Filter(pl, trackId) == SelectSeq(pl, LAMBDA t : t.id # trackId)

\* prev.findIndex(track => track.id === trackId), 0-based, -1 when absent
FindIndex(pl, trackId) ==
  IF \E k \in 1..Len(pl) : pl[k].id = trackId
  THEN (CHOOSE k \in 1..Len(pl) :
          pl[k].id = trackId /\ \A j \in 1..(k - 1) : pl[j].id # trackId) - 1
  ELSE -1

Ids(pl) == {pl[k].id : k \in 1..Len(pl)}


(* --------------------------- media element ------------------------------ *)

\* HTMLMediaElement.pause(): when the element is not paused, the play()
\* promises that have not started to resolve are rejected (AbortError)
AbortWaiting(ps, paused) ==
  IF paused THEN ps
  ELSE [k \in DOMAIN ps |-> IF ps[k] = "waiting" THEN "rejecting" ELSE ps[k]]

\* the element reaches HAVE_FUTURE_DATA: the waiting play() promises of a
\* playing element start to resolve
StartWaiting(ps, paused) ==
  IF paused THEN ps
  ELSE [k \in DOMAIN ps |-> IF ps[k] = "waiting" THEN "resolving" ELSE ps[k]]

\* the load failed: the waiting play() promises are rejected (NotSupportedError)
FailWaiting(ps) ==
  [k \in DOMAIN ps |-> IF ps[k] = "waiting" THEN "rejecting" ELSE ps[k]]

\* outcome of a new audio.play() promise of an element that is allowed to play
NewPromise(phase) ==
  CASE phase = "canplay" -> "resolving"
    [] phase \in {"empty", "error"} -> "rejecting"
    [] OTHER -> "waiting"

(* ----------------------------- object URLs ------------------------------ *)

\* revokeAudioUrl(url): every url of the model is a blob: URL, 0 is no url.
\* The hook never calls it; extractMetadata does, for its probe URL.
revokeAudioUrl(url) ==
  IF url # 0 THEN revoked' = revoked (+) SetToBag({url}) ELSE UNCHANGED revoked

(* ------------------------------- Init ----------------------------------- *)

\* the useState initial values and a fresh Audio(); the volume is counted in
\* tenths (1.0 = 10) and the playback rate in hundredths (1.0 = 100)
HookInit ==
  /\ isPlaying = FALSE
  /\ isLoading = FALSE
  /\ isBuffering = FALSE
  /\ duration = 0
  /\ currentTime = 0
  /\ volume = 10
  /\ isMuted = FALSE
  /\ playbackRate = 100
  /\ currentTrack = NoTrack
  /\ playlist = <<>>
  /\ currentTrackIndex = 0
  /\ error = Null
  /\ aSrc = 0
  /\ aPhase = "empty"
  /\ aPaused = TRUE
  /\ aTime = 0
  /\ aDuration = NaN
  /\ aVolume = 10
  /\ aMuted = FALSE
  /\ aRate = 100
  /\ vcPending = FALSE
  /\ promises = <<>>
  /\ tuPending = FALSE
  /\ endedPending = FALSE
  /\ staleMeta = FALSE
  /\ nextId = 1
  /\ revoked = EmptyBag

\* no file: the argument of extractMetadata before the call
NoFile == [name |-> <<>>, size |-> 0, type |-> "", duration |-> 0]

\* the value of a promise that is not fulfilled yet
NoMetadata == [name |-> <<>>, size |-> 0, type |-> "", duration |-> NaN]

\* the AudioPlayer component mounted without a track and not playing: the
\* useState initial values (AudioPlayer.js:15-20) and an <audio> element
\* without source
AudioPlayerInit ==
  /\ propTrack = 0
  /\ propIsPlaying = FALSE
  /\ capturedIsPlaying = FALSE
  /\ elPhase = "empty"
  /\ elPaused = TRUE
  /\ elTime = 0
  /\ viewLoading = FALSE
  /\ viewError = Null
  /\ viewMuted = FALSE
  /\ elVolume = 10

\* extractMetadata has not been called: no probe element, no object URL,
\* no promise
ProbeIdle ==
  /\ probeUrl = 0
  /\ listeners = {}
  /\ probePhase = "idle"
  /\ resolveCalls = 0
  /\ metadata = NoMetadata

\* the application starts without a call of the navigation utilities and of
\* extractMetadata
Init ==
  /\ HookInit
  /\ AudioPlayerInit
  /\ ProbeIdle
  /\ file = NoFile
  /\ currentIndex = 0
  /\ totalTracks = 0
  /\ shuffle = FALSE
  /\ shuffledIndices = <<>>
  /\ navResult = NoResult

(* ------------------------- transport commands --------------------------- *)

\* mutant of loadTrack: the previous source is not paused before the new
\* one is assigned
loadTrack_NoPause(track) ==
  /\ track # NoTrack
  /\ isPlaying' = FALSE
  /\ currentTime' = 0
  /\ error' = Null
  /\ currentTrack' = track
  /\ UNCHANGED <<aPaused, promises>>
  /\ aSrc' = track.url
  /\ aPhase' = "loadstart"
  /\ aTime' = 0
  /\ aDuration' = NaN
  /\ tuPending' = (aTime # 0)
  /\ endedPending' = FALSE
  /\ staleMeta' = (staleMeta \/ aPhase \in {"loadstart", "loading"})

\* loadTrack(track): pause the element, reset the session, assign the new
\* source and start its load.  audio.load() drops the events the element had
\* queued; a metadata callback of the load it supersedes may still arrive.
loadTrack(track) ==
  /\ track # NoTrack
  /\ isPlaying' = FALSE
  /\ currentTime' = 0
  /\ error' = Null
  /\ currentTrack' = track
  /\ aPaused' = TRUE
  /\ promises' = AbortWaiting(promises, aPaused)
  /\ aSrc' = track.url
  /\ aPhase' = "loadstart"
  /\ aTime' = 0
  /\ aDuration' = NaN
  /\ tuPending' = (aTime # 0)
  /\ endedPending' = FALSE
  /\ staleMeta' = (staleMeta \/ aPhase \in {"loadstart", "loading"})

LoadTrackCmd ==
  \E k \in 1..Len(playlist) :
    /\ loadTrack(playlist[k])
    /\ UNCHANGED <<isLoading, isBuffering, duration, playlist, currentTrackIndex,
                   attrVars, navVars, viewVars, probeVars, nextId, revoked>>

\* play(): returns when no track is loaded; clears the error, calls
\* audio.play() and suspends until the promise settles
play ==
  /\ currentTrack # NoTrack
  /\ Len(promises) < MaxPending
  /\ error' = Null
  /\ \/ \* the element starts (or restarts, when it had ended) playback
        /\ aPhase # "error"
        /\ aPaused' = FALSE
        /\ promises' = Append(promises, NewPromise(aPhase))
        /\ IF aPhase \in {"metadata", "canplay"} /\ aTime = aDuration
           THEN aTime' = 0 /\ tuPending' = TRUE
           ELSE UNCHANGED <<aTime, tuPending>>
     \/ \* the element refuses to start playback (NotAllowedError, or
        \* NotSupportedError when its source failed to load)
        /\ promises' = Append(promises, "rejecting")
        /\ UNCHANGED <<aPaused, aTime, tuPending>>
  /\ UNCHANGED <<isPlaying, isLoading, isBuffering, duration, currentTime,
                 currentTrack, playlist, currentTrackIndex,
                 aSrc, aPhase, aDuration, endedPending, staleMeta,
                 attrVars, navVars, viewVars, probeVars, nextId, revoked>>

\* continuation of play() after `await audioRef.current.play()` resolved
PlayResolved ==
  /\ promises # <<>>
  /\ Head(promises) = "resolving"
  /\ promises' = Tail(promises)
  /\ isPlaying' = TRUE
  /\ UNCHANGED <<isLoading, isBuffering, duration, currentTime, currentTrack,
                 playlist, currentTrackIndex, error,
                 aSrc, aPhase, aPaused, aTime, aDuration, tuPending,
                 endedPending, staleMeta, attrVars, navVars,
                 viewVars, probeVars, nextId, revoked>>

\* mutant of PlayRejected: the catch block sets the error only
PlayRejected_KeepPlaying ==
  /\ promises # <<>>
  /\ Head(promises) = "rejecting"
  /\ promises' = Tail(promises)
  /\ error' = PlayErrorMsg
  /\ UNCHANGED <<isPlaying, isLoading, isBuffering, duration, currentTime,
                 currentTrack, playlist, currentTrackIndex,
                 aSrc, aPhase, aPaused, aTime, aDuration, tuPending,
                 endedPending, staleMeta, attrVars, navVars,
                 viewVars, probeVars, nextId, revoked>>

\* catch block of play() after the promise rejected
PlayRejected ==
  /\ promises # <<>>
  /\ Head(promises) = "rejecting"
  /\ promises' = Tail(promises)
  /\ error' = PlayErrorMsg
  /\ isPlaying' = FALSE
  /\ UNCHANGED <<isLoading, isBuffering, duration, currentTime, currentTrack,
                 playlist, currentTrackIndex,
                 aSrc, aPhase, aPaused, aTime, aDuration, tuPending,
                 endedPending, staleMeta, attrVars, navVars,
                 viewVars, probeVars, nextId, revoked>>

\* mutant of pause: pausing also dismisses the error
pause_ClearsError ==
  /\ aPaused' = TRUE
  /\ promises' = AbortWaiting(promises, aPaused)
  /\ tuPending' = (tuPending \/ ~aPaused)
  /\ isPlaying' = FALSE
  /\ error' = Null
  /\ UNCHANGED <<isLoading, isBuffering, duration, currentTime, currentTrack,
                 playlist, currentTrackIndex,
                 aSrc, aPhase, aTime, aDuration, endedPending, staleMeta,
                 attrVars, navVars, viewVars, probeVars, nextId, revoked>>

\* pause()
pause ==
  /\ aPaused' = TRUE
  /\ promises' = AbortWaiting(promises, aPaused)
  /\ tuPending' = (tuPending \/ ~aPaused)
  /\ isPlaying' = FALSE
  /\ UNCHANGED <<isLoading, isBuffering, duration, currentTime, currentTrack,
                 playlist, currentTrackIndex, error,
                 aSrc, aPhase, aTime, aDuration, endedPending, staleMeta,
                 attrVars, navVars, viewVars, probeVars, nextId, revoked>>

\* mutant of stop: the element is paused where it is, only the session
\* position is reset
stop_NoRewind ==
  /\ aPaused' = TRUE
  /\ promises' = AbortWaiting(promises, aPaused)
  /\ aTime' = aTime
  /\ tuPending' = (tuPending \/ ~aPaused)
  /\ isPlaying' = FALSE
  /\ currentTime' = 0

\* stop(): the part shared with clearPlaylist (element and session position)
stop ==
  /\ aPaused' = TRUE
  /\ promises' = AbortWaiting(promises, aPaused)
  /\ aTime' = 0
  /\ tuPending' = (tuPending \/ ~aPaused \/ aTime # 0)
  /\ isPlaying' = FALSE
  /\ currentTime' = 0

StopCmd ==
  /\ stop
  /\ UNCHANGED <<isLoading, isBuffering, duration, currentTrack,
                 playlist, currentTrackIndex, error,
                 aSrc, aPhase, aDuration, endedPending, staleMeta,
                 attrVars, navVars, viewVars, probeVars, nextId, revoked>>


\* togglePlayPause()
togglePlayPause ==
  IF isPlaying THEN pause ELSE play

(* --------------------------- playlist commands -------------------------- *)

\* mutant of AddTrack: the copy is put in front of the playlist
AddTrack_Prepend(track) ==
  /\ nextId <= MaxTracks
  /\ playlist' = <<[track EXCEPT !.id = nextId]>> \o playlist
  /\ nextId' = nextId + 1
  /\ UNCHANGED <<isPlaying, isLoading, isBuffering, duration, currentTime,
                 currentTrack, currentTrackIndex, error,
                 mediaVars, attrVars, navVars, viewVars, probeVars, revoked>>

\* addToPlaylist(track): append a copy of the track under a fresh id,
\* [...prev, { ...track, id: Date.now() + Math.random() }]
AddTrack(track) ==
  /\ nextId <= MaxTracks
  /\ playlist' = Append(playlist, [track EXCEPT !.id = nextId])
  /\ nextId' = nextId + 1
  /\ UNCHANGED <<isPlaying, isLoading, isBuffering, duration, currentTime,
                 currentTrack, currentTrackIndex, error,
                 mediaVars, attrVars, navVars, viewVars, probeVars, revoked>>

\* addToPlaylist(track) for a track the user uploads (a new object URL)
addToPlaylist == AddTrack(Track(nextId))

\* addToPlaylist(track) for a track that is in the playlist already
AddAgainCmd == \E k \in 1..Len(playlist) : AddTrack(playlist[k])

\* mutant of ShiftedIndex: an id that is not in the playlist shifts the
\* index like a removal before the current track
ShiftedIndex_IgnoreAbsent(removedIndex, index) ==
  IF removedIndex <= index THEN Max(0, index - 1) ELSE index

\* mutant of ShiftedIndex: the index is never adjusted
ShiftedIndex_NoShift(removedIndex, index) == index

\* mutant of ShiftedIndex: removing the track at the current index does not shift
ShiftedIndex_Strict(removedIndex, index) ==
  IF removedIndex # -1 /\ removedIndex < index
  THEN Max(0, index - 1)
  ELSE index

\* the index adjustment of removeFromPlaylist
ShiftedIndex(removedIndex, index) ==
  IF removedIndex # -1 /\ removedIndex <= index
  THEN Max(0, index - 1)
  ELSE index

\* removeFromPlaylist(trackId)
removeFromPlaylist(trackId) ==
  /\ playlist' = Filter(playlist, trackId)
  /\ currentTrackIndex' =
       ShiftedIndex(FindIndex(playlist, trackId), currentTrackIndex)
  /\ UNCHANGED <<isPlaying, isLoading, isBuffering, duration, currentTime,
                 currentTrack, error, mediaVars, attrVars, navVars,
                 viewVars, probeVars, nextId, revoked>>

\* the value of the call clearPlaylist(): the callback has a block body
\* without a return statement
ClearPlaylistReturn == Undefined

\* clearPlaylist()
clearPlaylist ==
  /\ playlist' = <<>>
  /\ currentTrackIndex' = 0
  /\ stop
  /\ currentTrack' = NoTrack
  /\ UNCHANGED <<isLoading, isBuffering, duration, error,
                 aSrc, aPhase, aDuration, endedPending, staleMeta,
                 attrVars, navVars, viewVars, probeVars, nextId, revoked>>

\* playTrack(trackIndex), without the bookkeeping of the calling action
playTrack(trackIndex) ==
  /\ ~(trackIndex < 0 \/ trackIndex >= Len(playlist))
  /\ currentTrackIndex' = trackIndex
  /\ loadTrack(At(playlist, trackIndex))

PlayTrackCmd ==
  \E trackIndex \in 0..(MaxTracks - 1) :
    /\ playTrack(trackIndex)
    /\ UNCHANGED <<isLoading, isBuffering, duration, playlist,
                   attrVars, navVars, viewVars, probeVars, nextId, revoked>>

\* the index arithmetic of playNext
NextIndex(index, length) == (index + 1) % length

\* mutant of PrevIndex: the first track has no previous track
PrevIndex_NoWrap(index, length) == Max(0, index - 1)

\* the index arithmetic of playPrevious
PrevIndex(index, length) == IF index = 0 THEN length - 1 ELSE index - 1

\* playNext(), without the bookkeeping of the calling action
playNext ==
  /\ Len(playlist) # 0
  /\ playTrack(NextIndex(currentTrackIndex, Len(playlist)))

PlayNextCmd ==
  /\ playNext
  /\ UNCHANGED <<isLoading, isBuffering, duration, playlist,
                 attrVars, navVars, viewVars, probeVars, nextId, revoked>>

\* playPrevious()
PlayPreviousCmd ==
  /\ Len(playlist) # 0
  /\ playTrack(PrevIndex(currentTrackIndex, Len(playlist)))
  /\ UNCHANGED <<isLoading, isBuffering, duration, playlist,
                 attrVars, navVars, viewVars, probeVars, nextId, revoked>>


(* ----------------------------- media events ----------------------------- *)

\* handleLoadStart: the element dispatches loadstart for the current load
handleLoadStart ==
  /\ aPhase = "loadstart"
  /\ aPhase' = "loading"
  /\ isLoading' = TRUE
  /\ isBuffering' = TRUE
  /\ error' = Null
  /\ UNCHANGED <<isPlaying, duration, currentTime, currentTrack, playlist,
                 currentTrackIndex,
                 aSrc, aPaused, aTime, aDuration, promises, tuPending,
                 endedPending, staleMeta, attrVars, navVars,
                 viewVars, probeVars, nextId, revoked>>

\* body of handleLoadedMetadata: setDuration(audio.duration), setIsLoading(false);
\* d is the value audio.duration has when the handler runs
OnLoadedMetadata(d) ==
  /\ duration' = d
  /\ isLoading' = FALSE

\* handleLoadedMetadata: the metadata of the current source is available.
\* A position assigned to the element before its metadata (seek while the
\* source loads) is its default start position: the element seeks to it now,
\* inside the source, and queues timeupdate
handleLoadedMetadata ==
  /\ aPhase = "loading"
  /\ aPhase' = "metadata"
  /\ aDuration' = DurationOf(aSrc)
  /\ aTime' = Min(aTime, DurationOf(aSrc))
  /\ tuPending' = (tuPending \/ aTime # 0)
  /\ OnLoadedMetadata(DurationOf(aSrc))
  /\ UNCHANGED <<isPlaying, isBuffering, currentTime, currentTrack, playlist,
                 currentTrackIndex, error,
                 aSrc, aPaused, promises,
                 endedPending, staleMeta, attrVars, navVars,
                 viewVars, probeVars, nextId, revoked>>

\* handleLoadedMetadata run by a loadedmetadata callback of a load that a
\* later loadTrack superseded: the handler holds no token of the load it
\* belongs to and reads the element as it is now
StaleLoadedMetadata ==
  /\ staleMeta
  /\ staleMeta' = FALSE
  /\ OnLoadedMetadata(aDuration)
  /\ UNCHANGED <<isPlaying, isBuffering, currentTime, currentTrack, playlist,
                 currentTrackIndex, error,
                 aSrc, aPhase, aPaused, aTime, aDuration, promises, tuPending,
                 endedPending, attrVars, navVars,
                 viewVars, probeVars, nextId, revoked>>

\* the superseded load never delivers its metadata (the element dropped it)
StaleDropped ==
  /\ staleMeta
  /\ staleMeta' = FALSE
  /\ UNCHANGED <<hookVars, attrVars, navVars,
                 viewVars, probeVars, aSrc, aPhase, aPaused, aTime, aDuration,
                 promises, tuPending, endedPending, nextId, revoked>>

\* handleCanPlay: enough data to play; a playing element starts to resolve
\* the play() promises that waited for data
handleCanPlay ==
  /\ aPhase = "metadata"
  /\ aPhase' = "canplay"
  /\ promises' = StartWaiting(promises, aPaused)
  /\ isBuffering' = FALSE
  /\ UNCHANGED <<isPlaying, isLoading, duration, currentTime, currentTrack,
                 playlist, currentTrackIndex, error,
                 aSrc, aPaused, aTime, aDuration, tuPending,
                 endedPending, staleMeta, attrVars, navVars,
                 viewVars, probeVars, nextId, revoked>>

\* the element plays: its position advances by one unit, after the tasks it
\* queued before (timeupdate, the resolution of play() promises) have run; at
\* the end of the source it pauses itself and queues ended (after timeupdate)
MediaAdvance ==
  /\ aPhase = "canplay"
  /\ ~aPaused
  /\ aTime < aDuration
  /\ ~tuPending
  /\ \A k \in DOMAIN promises : promises[k] # "resolving"
  /\ aTime' = aTime + 1
  /\ tuPending' = TRUE
  /\ IF aTime + 1 = aDuration
     THEN aPaused' = TRUE /\ endedPending' = TRUE
     ELSE UNCHANGED <<aPaused, endedPending>>
  /\ UNCHANGED <<hookVars, attrVars, navVars,
                 viewVars, probeVars, aSrc, aPhase, aDuration, promises,
                 staleMeta, nextId, revoked>>

\* handleTimeUpdate
handleTimeUpdate ==
  /\ tuPending
  /\ tuPending' = FALSE
  /\ currentTime' = aTime
  /\ UNCHANGED <<isPlaying, isLoading, isBuffering, duration, currentTrack,
                 playlist, currentTrackIndex, error,
                 aSrc, aPhase, aPaused, aTime, aDuration, promises,
                 endedPending, staleMeta, attrVars, navVars,
                 viewVars, probeVars, nextId, revoked>>

\* mutant of ShouldAutoAdvance: any non-empty playlist advances (a single
\* track is loaded again)
ShouldAutoAdvance_Replay(length, index) == length > 0

\* mutant of ShouldAutoAdvance: any playlist of several tracks advances (the
\* last track wraps to the first)
ShouldAutoAdvance_Wrap(length, index) == length > 1

\* the condition under which handleEnded goes on to the next track
ShouldAutoAdvance(length, index) ==
  length > 0 /\ index < length - 1

\* handleEnded
handleEnded ==
  /\ endedPending
  /\ ~tuPending
  /\ IF ShouldAutoAdvance(Len(playlist), currentTrackIndex)
     THEN /\ playNext
          /\ UNCHANGED <<isLoading, isBuffering, duration, playlist,
                         attrVars, navVars,
                 viewVars, probeVars, nextId, revoked>>
     ELSE /\ isPlaying' = FALSE
          /\ currentTime' = 0
          /\ endedPending' = FALSE
          /\ UNCHANGED <<isLoading, isBuffering, duration, currentTrack,
                         playlist, currentTrackIndex, error,
                         aSrc, aPhase, aPaused, aTime, aDuration, promises,
                         tuPending, staleMeta, attrVars, navVars,
                 viewVars, probeVars, nextId, revoked>>

\* mutant of handleError: the handler also unloads the track
handleError_DropsTrack ==
  /\ \/ aPhase = "loading"
     \/ aPhase \in {"metadata", "canplay"} /\ aTime < aDuration
  /\ aPhase' = "error"
  /\ promises' = FailWaiting(promises)
  /\ isPlaying' = FALSE
  /\ isLoading' = FALSE
  /\ isBuffering' = FALSE
  /\ error' = LoadErrorMsg
  /\ currentTrack' = NoTrack
  /\ UNCHANGED <<duration, currentTime, playlist,
                 currentTrackIndex,
                 aSrc, aPaused, aTime, aDuration, tuPending,
                 endedPending, staleMeta, attrVars, navVars,
                 viewVars, probeVars, nextId, revoked>>

\* mutant of handleError: the loading flag is not cleared
handleError_KeepsLoading ==
  /\ \/ aPhase = "loading"
     \/ aPhase \in {"metadata", "canplay"} /\ aTime < aDuration
  /\ aPhase' = "error"
  /\ promises' = FailWaiting(promises)
  /\ isPlaying' = FALSE
  /\ isBuffering' = FALSE
  /\ error' = LoadErrorMsg
  /\ UNCHANGED <<isLoading, duration, currentTime, currentTrack, playlist,
                 currentTrackIndex,
                 aSrc, aPaused, aTime, aDuration, tuPending,
                 endedPending, staleMeta, attrVars, navVars,
                 viewVars, probeVars, nextId, revoked>>

\* handleError: the element reports an error, while it fetches the source or
\* while it decodes what is left to play
handleError ==
  /\ \/ aPhase = "loading"
     \/ aPhase \in {"metadata", "canplay"} /\ aTime < aDuration
  /\ aPhase' = "error"
  /\ promises' = FailWaiting(promises)
  /\ isPlaying' = FALSE
  /\ isLoading' = FALSE
  /\ isBuffering' = FALSE
  /\ error' = LoadErrorMsg
  /\ UNCHANGED <<duration, currentTime, currentTrack, playlist,
                 currentTrackIndex,
                 aSrc, aPaused, aTime, aDuration, tuPending,
                 endedPending, staleMeta, attrVars, navVars,
                 viewVars, probeVars, nextId, revoked>>

(* ---------------------------- specification ----------------------------- *)

\* settled promises and media events first, then the commands of the user
Next ==
  \/ PlayResolved
  \/ PlayRejected
  \/ handleLoadStart
  \/ handleLoadedMetadata
  \/ StaleLoadedMetadata
  \/ StaleDropped
  \/ handleCanPlay
  \/ MediaAdvance
  \/ handleTimeUpdate
  \/ handleEnded
  \/ handleError
  \/ PlayTrackCmd
  \/ PlayNextCmd
  \/ PlayPreviousCmd
  \/ LoadTrackCmd
  \/ play
  \/ pause
  \/ StopCmd
  \/ togglePlayPause
  \/ addToPlaylist
  \/ \E trackId \in 1..MaxTracks : removeFromPlaylist(trackId)
  \/ clearPlaylist

Spec == Init /\ [][Next]_vars


(* ------------------------------------------------------------------------ *)
(* Steps of the environment: settled promises and media events.  Every      *)
(* other disjunct of Next is a command of the user.                         *)
(* ------------------------------------------------------------------------ *)
EnvNext ==
  \/ PlayResolved
  \/ PlayRejected
  \/ handleLoadStart
  \/ handleLoadedMetadata
  \/ StaleLoadedMetadata
  \/ StaleDropped
  \/ handleCanPlay
  \/ MediaAdvance
  \/ handleTimeUpdate
  \/ handleEnded
  \/ handleError

\* the ended event of the loaded source was handled without a new load, and
\* no command has moved the element since: it sits paused at the end
EndedDelivered ==
  /\ aPhase \in {"canplay", "error"}
  /\ aTime = aDuration
  /\ aPaused
  /\ ~endedPending
  /\ ~tuPending

(* --------------------------- position commands -------------------------- *)

\* Math.max(0, Math.min(time, duration)); both are NaN when duration is NaN
ClampTime(time, dur) ==
  IF dur = NaN THEN NaN ELSE Max(0, Min(time, dur))

\* `audio.currentTime = t` for a number t.  Without metadata the element only
\* records t as its default start position; with metadata it seeks inside the
\* source and queues timeupdate, and a playing element that is moved to the
\* end ends (pauses itself and queues ended).  Whether a paused element that
\* is moved to the end dispatches ended is left to the browser.
SetElementTime(t) ==
  IF aDuration = NaN
  THEN /\ aTime' = t
       /\ UNCHANGED <<aPaused, tuPending, endedPending>>
  ELSE /\ aTime' = Min(t, aDuration)
       /\ tuPending' = TRUE
       /\ IF aPhase = "canplay" /\ t >= aDuration
          THEN /\ aPaused' = TRUE
               /\ \E fired \in BOOLEAN :
                    endedPending' = (endedPending \/ ~aPaused \/ fired)
          ELSE UNCHANGED <<aPaused, endedPending>>

\* seek(time): the clamp uses the duration held by the session; assigning NaN
\* to audio.currentTime throws a TypeError before setCurrentTime runs
seek(time) ==
  IF ClampTime(time, duration) = NaN
  THEN UNCHANGED vars
  ELSE /\ SetElementTime(ClampTime(time, duration))
       /\ currentTime' = ClampTime(time, duration)
       /\ UNCHANGED <<isPlaying, isLoading, isBuffering, duration,
                      currentTrack, playlist, currentTrackIndex, error,
                      aSrc, aPhase, aDuration, promises, staleMeta,
                      attrVars, navVars, viewVars, probeVars, nextId, revoked>>

\* the times the user asks for: negative, inside a source, beyond every source
SeekTimes == (0 - 2) .. MaxSeek

SeekCmd == \E time \in SeekTimes : seek(time)

\* the steps of skipForward / skipBackward: one unit, and the default of 10
SkipSeconds == {1, 10}

\* skipForward(seconds)
skipForward == \E seconds \in SkipSeconds : seek(currentTime + seconds)

\* skipBackward(seconds)
skipBackward == \E seconds \in SkipSeconds : seek(currentTime - seconds)

\* the controller with its position commands, while tracks are added,
\* loaded, played, stopped and cleared
NextSeek ==
  \/ EnvNext
  \/ SeekCmd
  \/ skipForward
  \/ skipBackward
  \/ PlayTrackCmd
  \/ play
  \/ pause
  \/ StopCmd
  \/ addToPlaylist
  \/ clearPlaylist

SpecSeek == Init /\ [][NextSeek]_vars

(* -------------------------- playlist bookkeeping ------------------------ *)

\* the controller with every way to change its playlist, while tracks are
\* loaded and played
NextPlaylist ==
  \/ PlayResolved
  \/ PlayRejected
  \/ handleLoadStart
  \/ handleLoadedMetadata
  \/ handleCanPlay
  \/ PlayTrackCmd
  \/ play
  \/ clearPlaylist
  \/ addToPlaylist
  \/ AddAgainCmd
  \/ \E trackId \in 1..MaxTracks : removeFromPlaylist(trackId)

SpecPlaylist == Init /\ [][NextPlaylist]_vars

(* ------------------------- navigation utilities ------------------------- *)

\* the index list [0, ..., n - 1]
Indices(n) == [k \in 1..n |-> k - 1]

\* arr[k] of the source: undefined outside the array
ArrayAt(arr, k) ==
  IF 0 <= k /\ k < Len(arr) THEN arr[k + 1] ELSE Undefined

\* arr.indexOf(x): the first position of x, -1 when absent
IndexOf(arr, x) ==
  IF \E k \in 1..Len(arr) : arr[k] = x
  THEN (CHOOSE k \in 1..Len(arr) :
          arr[k] = x /\ \A j \in 1..(k - 1) : arr[j] # x) - 1
  ELSE -1

\* [shuffled[i], shuffled[j]] = [shuffled[j], shuffled[i]]
Swap(arr, i, j) ==
  [k \in 1..Len(arr) |->
     IF k = i + 1 THEN arr[j + 1] ELSE IF k = j + 1 THEN arr[i + 1] ELSE arr[k]]

\* the values Math.floor(Math.random() * (i + 1)) can take in the loop of
\* shuffleArray over an array of n entries: one j in 0..i for i = n-1 .. 1
RandomChoices(n) ==
  {c \in [1..(n - 1) -> 0..(n - 1)] : \A i \in 1..(n - 1) : c[i] <= i}

\* the loop of shuffleArray from index i down to 1
RECURSIVE ShuffleFrom(_, _, _)
ShuffleFrom(shuffled, i, choices) ==
  IF i > 0
  THEN ShuffleFrom(Swap(shuffled, i, choices[i]), i - 1, choices)
  ELSE shuffled

\* mutant of shuffleArray: the loop copies shuffled[j] to shuffled[i] and
\* does not store the old shuffled[i] at j
RECURSIVE OverwriteFrom(_, _, _)
OverwriteFrom(shuffled, i, choices) ==
  IF i > 0
  THEN OverwriteFrom([shuffled EXCEPT ![i + 1] = shuffled[choices[i] + 1]],
                     i - 1, choices)
  ELSE shuffled

shuffleArray_Overwrite(array, choices) ==
  OverwriteFrom(array, Len(array) - 1, choices)

\* shuffleArray(array): the array it returns, for the random choices made
shuffleArray(array, choices) ==
  ShuffleFrom(array, Len(array) - 1, choices)

\* the argument of shuffleArray after the call: the loop works on the copy
\* [...array]
ArrayAfterShuffle(array, choices) == array

\* mutant of getNextTrackIndex: the linear next index stops at the last track
getNextTrackIndex_NoWrap(index, total, shuffled, indices) ==
  IF total = 0 THEN -1
  ELSE IF shuffled /\ Len(indices) > 0
  THEN ArrayAt(indices, (IndexOf(indices, index) + 1) % Len(indices))
  ELSE Min(index + 1, total - 1)

\* getNextTrackIndex(currentIndex, totalTracks, shuffle, shuffledIndices)
getNextTrackIndex(index, total, shuffled, indices) ==
  IF total = 0 THEN -1
  ELSE IF shuffled /\ Len(indices) > 0
  THEN ArrayAt(indices, (IndexOf(indices, index) + 1) % Len(indices))
  ELSE (index + 1) % total

\* getPreviousTrackIndex(currentIndex, totalTracks, shuffle, shuffledIndices)
getPreviousTrackIndex(index, total, shuffled, indices) ==
  IF total = 0 THEN -1
  ELSE IF shuffled /\ Len(indices) > 0
  THEN ArrayAt(indices,
               IF IndexOf(indices, index) = 0
               THEN Len(indices) - 1
               ELSE IndexOf(indices, index) - 1)
  ELSE IF index = 0 THEN total - 1 ELSE index - 1

\* every array shuffleArray can return for the index list of n entries
Shuffles(n) ==
  {shuffleArray(Indices(n), choices) : choices \in RandomChoices(n)}

\* the arguments a caller hands to the utilities: a playlist length, an
\* index of a playlist of up to MaxLen tracks, the shuffle flag and a
\* shuffled index list built for some playlist length (the default [] too)
NavInit ==
  /\ HookInit
  /\ AudioPlayerInit
  /\ ProbeIdle
  /\ file = NoFile
  /\ totalTracks \in 0..MaxLen
  /\ currentIndex \in 0..(MaxLen - 1)
  /\ shuffle \in BOOLEAN
  /\ shuffledIndices \in UNION {Shuffles(n) : n \in 0..MaxLen}
  /\ navResult = NoResult

\* a call of getNextTrackIndex
GetNext ==
  /\ navResult' =
       getNextTrackIndex(currentIndex, totalTracks, shuffle, shuffledIndices)
  /\ UNCHANGED <<hookVars, attrVars, mediaVars, nextId, revoked,
                 currentIndex, totalTracks, shuffle, shuffledIndices,
                 viewVars, probeVars>>

\* a call of getPreviousTrackIndex
GetPrevious ==
  /\ navResult' =
       getPreviousTrackIndex(currentIndex, totalTracks, shuffle,
                             shuffledIndices)
  /\ UNCHANGED <<hookVars, attrVars, mediaVars, nextId, revoked,
                 currentIndex, totalTracks, shuffle, shuffledIndices,
                 viewVars, probeVars>>

\* the caller builds a new shuffled index list for the playlist length
Reshuffle ==
  /\ \E choices \in RandomChoices(totalTracks) :
       shuffledIndices' = shuffleArray(Indices(totalTracks), choices)
  /\ UNCHANGED <<hookVars, attrVars, mediaVars, nextId, revoked,
                 currentIndex, totalTracks, shuffle, navResult,
                 viewVars, probeVars>>

NavNext ==
  \/ GetNext
  \/ GetPrevious
  \/ Reshuffle

SpecNav == NavInit /\ [][NavNext]_vars

(* -------------------------- attribute commands -------------------------- *)

\* mutant of ClampVolume: the upper end of the range is not enforced
ClampVolume_NoUpper(newVolume) ==
  IF newVolume = NaN THEN NaN ELSE Max(0, newVolume)

\* Math.max(0, Math.min(1, newVolume)) in tenths; NaN stays NaN
ClampVolume(newVolume) ==
  IF newVolume = NaN THEN NaN ELSE Max(0, Min(10, newVolume))

\* mutant of ShouldUnmute: every change of the volume unmutes
ShouldUnmute_Always(clampedVolume, muted) == muted

\* clampedVolume > 0 && isMuted
ShouldUnmute(clampedVolume, muted) == clampedVolume > 0 /\ muted

\* changeVolume(newVolume); assigning NaN to audio.volume throws a TypeError
\* before setVolume runs.  The element queues volumechange when its volume
\* or its muted flag changes.
changeVolume(newVolume) ==
  IF ClampVolume(newVolume) = NaN
  THEN UNCHANGED vars
  ELSE /\ aVolume' = ClampVolume(newVolume)
       /\ volume' = ClampVolume(newVolume)
       /\ IF ShouldUnmute(ClampVolume(newVolume), isMuted)
          THEN aMuted' = FALSE /\ isMuted' = FALSE
          ELSE UNCHANGED <<aMuted, isMuted>>
       /\ vcPending' = (vcPending \/ aVolume' # aVolume \/ aMuted' # aMuted)
       /\ UNCHANGED <<hookVars, mediaVars, playbackRate, aRate,
                      nextId, revoked,
                 navVars, viewVars, probeVars>>

\* the volumes the user asks for, in tenths: below the range, not a number,
\* the lower end and the middle of the range, above the range
VolumeInputs == {0 - 5, NaN, 0, 5, 15}

ChangeVolumeCmd == \E newVolume \in VolumeInputs : changeVolume(newVolume)

\* mutant of toggleMute: muting also pauses the playback
toggleMute_Pause ==
  /\ aMuted' = ~aMuted
  /\ isMuted' = ~isMuted
  /\ vcPending' = TRUE
  /\ aPaused' = TRUE
  /\ isPlaying' = FALSE
  /\ UNCHANGED <<isLoading, isBuffering, duration, currentTime, currentTrack,
                 playlist, currentTrackIndex, error,
                 aSrc, aPhase, aTime, aDuration, promises, tuPending,
                 endedPending, staleMeta,
                 volume, aVolume, playbackRate, aRate, nextId, revoked,
                 navVars, viewVars, probeVars>>

\* mutant of toggleMute: only the element is toggled, the flag of the hook
\* keeps its value
toggleMute_ElementOnly ==
  /\ aMuted' = ~aMuted
  /\ vcPending' = TRUE
  /\ UNCHANGED <<hookVars, mediaVars, isMuted, volume, aVolume, playbackRate,
                 aRate, nextId, revoked,
                 navVars, viewVars, probeVars>>

\* toggleMute()
toggleMute ==
  /\ aMuted' = ~aMuted
  /\ isMuted' = ~isMuted
  /\ vcPending' = TRUE
  /\ UNCHANGED <<hookVars, mediaVars, volume, aVolume, playbackRate, aRate,
                 nextId, revoked,
                 navVars, viewVars, probeVars>>

\* mutant of ClampRate: the lower end of the range is not enforced
ClampRate_NoLower(rate) ==
  IF rate = NaN THEN NaN ELSE Min(400, rate)

\* Math.max(0.25, Math.min(4, rate)) in hundredths; NaN stays NaN
ClampRate(rate) ==
  IF rate = NaN THEN NaN ELSE Max(25, Min(400, rate))

\* changePlaybackRate(rate); assigning NaN to audio.playbackRate throws a
\* TypeError before setPlaybackRate runs
changePlaybackRate(rate) ==
  IF ClampRate(rate) = NaN
  THEN UNCHANGED vars
  ELSE /\ aRate' = ClampRate(rate)
       /\ playbackRate' = ClampRate(rate)
       /\ UNCHANGED <<hookVars, mediaVars, volume, isMuted, aVolume, aMuted,
                      vcPending, nextId, revoked,
                 navVars, viewVars, probeVars>>

\* the rates the user asks for, in hundredths: not a number, below the
\* range, inside it, above it
RateInputs == {NaN, 10, 100, 1000}

ChangePlaybackRateCmd == \E rate \in RateInputs : changePlaybackRate(rate)

\* handleVolumeChange: the volumechange event copies the element's attributes
handleVolumeChange ==
  /\ vcPending
  /\ vcPending' = FALSE
  /\ volume' = aVolume
  /\ isMuted' = aMuted
  /\ UNCHANGED <<hookVars, mediaVars, playbackRate, aVolume, aMuted, aRate,
                 nextId, revoked,
                 navVars, viewVars, probeVars>>

\* the controller with its attribute commands, while tracks are added,
\* loaded and played
NextAttr ==
  \/ handleVolumeChange
  \/ ChangeVolumeCmd
  \/ toggleMute
  \/ ChangePlaybackRateCmd
  \/ PlayResolved
  \/ PlayRejected
  \/ handleLoadStart
  \/ handleLoadedMetadata
  \/ handleCanPlay
  \/ MediaAdvance
  \/ handleTimeUpdate
  \/ PlayTrackCmd
  \/ play
  \/ addToPlaylist

SpecAttr == Init /\ [][NextAttr]_vars

(* ================================ claims ================================ *)

\* C1 (as claimed): a play() resolution that arrives after pause(), stop() or
\* loadTrack() was issued is discarded, the session stays not playing.  A
\* promise that resolves while the element is paused is such a resolution:
\* play() unpaused the element, and with the resolution outstanding only
\* pause, stop, loadTrack and clearPlaylist pause it again.
C1_StaleResolutionDiscarded ==
  [][(PlayResolved /\ aPaused) => ~isPlaying']_vars

\* C2 (as claimed): a loadedmetadata callback of a superseded load changes
\* nothing: duration, loading flag and current track stay as they are.
C2_StaleMetadataIgnored ==
  [][StaleLoadedMetadata => UNCHANGED <<duration, isLoading, currentTrack>>]_vars

\* C3 (as claimed): the current index is -1 or a valid position.
C3_IndexMinusOneOrValid ==
  \/ currentTrackIndex = -1
  \/ (0 <= currentTrackIndex /\ currentTrackIndex < Len(playlist))

\* C3 (amended): the current index is never -1; it is 0 while the playlist is
\* empty and a valid position [0, length) otherwise.
C3_IndexZeroOrValid ==
  IF Len(playlist) = 0
  THEN currentTrackIndex = 0
  ELSE 0 <= currentTrackIndex /\ currentTrackIndex < Len(playlist)

\* C3 witness: tracks were added and then all removed; the index is 0, which
\* is no position of the empty playlist
C3_Witness ==
  /\ nextId > MaxTracks
  /\ playlist = <<>>
  /\ currentTrackIndex = 0
  /\ currentTrack # NoTrack

\* C4 (as claimed): on ended with more than one track the controller loads
\* the track at nextIndex(current index) and issues play().  Stated for the
\* tracks before the last one, the case in which the code goes on to the
\* next track (C10 is about the last track).
C4_AutoAdvancePlays ==
  [][(/\ handleEnded
      /\ Len(playlist) > 1
      /\ currentTrackIndex < Len(playlist) - 1) =>
       /\ currentTrackIndex' = NextIndex(currentTrackIndex, Len(playlist))
       /\ currentTrack' = At(playlist, currentTrackIndex')
       /\ Len(promises') = Len(promises) + 1
       /\ ~aPaused']_vars

\* C5 (as claimed): removing the currently loaded track stops playback and
\* falls back to Empty.
C5_RemoveCurrentStops ==
  [][\A id \in 1..MaxTracks :
       (removeFromPlaylist(id) /\ id \in Ids(playlist) /\ currentTrack.id = id) =>
         /\ aPaused'
         /\ ~isPlaying'
         /\ currentTrack' = NoTrack]_vars

\* C6 (as claimed): playlist [A,B,C] with B loaded at index 1; removing B
\* leaves index 0 pointing at C and the transport Empty.
C6_RemoveBScenario ==
  [][(/\ playlist = <<Track(1), Track(2), Track(3)>>
      /\ currentTrackIndex = 1
      /\ currentTrack = Track(2)
      /\ removeFromPlaylist(2)) =>
       /\ currentTrackIndex' = 0
       /\ At(playlist', currentTrackIndex') = Track(3)
       /\ currentTrack' = NoTrack
       /\ ~isPlaying'
       /\ aPaused']_vars

\* C7 (as claimed): removing a track at or before the current index shifts
\* the index down by exactly one.
C7_ShiftExactlyOne ==
  [][\A id \in 1..MaxTracks :
       (/\ removeFromPlaylist(id)
        /\ FindIndex(playlist, id) # -1
        /\ FindIndex(playlist, id) <= currentTrackIndex) =>
         currentTrackIndex' = currentTrackIndex - 1]_vars

\* C7 (amended): removing a track at or before the current index shifts the
\* index down by one but never below 0 (removing the track at index 0 while
\* the index is 0 leaves it 0); when the removed track was strictly before
\* the current one, playlist[index] is the same track before and after;
\* removing a track after the current index, or an absent id, leaves the
\* index unchanged.  (A removal that changes neither the playlist nor the
\* index changes nothing at all.)
C7_ShiftClamped ==
  [][(~UNCHANGED <<playlist, currentTrackIndex>>) =>
     \A id \in 1..MaxTracks :
       removeFromPlaylist(id) =>
         LET r == FindIndex(playlist, id) IN
           /\ (r # -1 /\ r <= currentTrackIndex) =>
                currentTrackIndex' = Max(0, currentTrackIndex - 1)
           /\ (r # -1 /\ r < currentTrackIndex) =>
                /\ currentTrackIndex' = currentTrackIndex - 1
                /\ At(playlist', currentTrackIndex') =
                     At(playlist, currentTrackIndex)
           /\ (r = -1 \/ r > currentTrackIndex) =>
                currentTrackIndex' = currentTrackIndex]_vars

\* C7 witness: track 2 is loaded and playing, track 1 before it is gone, and
\* the index (0) points at track 2
C7_Witness ==
  /\ 1 \notin Ids(playlist)
  /\ currentTrack = Track(2)
  /\ currentTrackIndex = 0
  /\ Len(playlist) > 1
  /\ At(playlist, currentTrackIndex) = Track(2)
  /\ isPlaying

\* C8 (as claimed): the URL of a track that was removed from the playlist has
\* been released, exactly once.
C8_ReleasedOnRemoval ==
  \A i \in 1..(nextId - 1) :
    i \notin Ids(playlist) => CopiesIn(Track(i).url, revoked) = 1

\* C9: with a single-track playlist, ended issues no load and no play, sets
\* isPlaying false and the position 0, and leaves the element where it is
\* (paused at the end of the track, unless the user restarted it before the
\* event was handled); from then on no step of the environment changes that.
C9_SingleTrackEnded ==
  [][/\ (handleEnded /\ Len(playlist) = 1) =>
          /\ ~isPlaying'
          /\ currentTime' = 0
          /\ (aPaused /\ aTime = aDuration) => EndedDelivered'
          /\ UNCHANGED <<currentTrack, currentTrackIndex, playlist,
                         aSrc, aPhase, aPaused, aTime, promises>>
     /\ (Len(playlist) = 1 /\ EndedDelivered /\ EnvNext) =>
          /\ ~isPlaying'
          /\ currentTime' = 0
          /\ EndedDelivered'
          /\ UNCHANGED <<currentTrack, currentTrackIndex, aSrc, aPaused, aTime>>]_vars

\* C9 witness: the only track of the playlist has played to its end and its
\* ended event has been handled
C9_Witness ==
  /\ Len(playlist) = 1
  /\ currentTrack = At(playlist, 0)
  /\ aSrc = currentTrack.url
  /\ aPhase = "canplay"
  /\ EndedDelivered
  /\ ~isPlaying
  /\ currentTime = 0

\* C10 (as claimed): ended on the last track of a playlist with more than one
\* track loads the track at index 0.
C10_EndedWraps ==
  [][(/\ handleEnded
      /\ Len(playlist) > 1
      /\ currentTrackIndex = Len(playlist) - 1) =>
       /\ currentTrackIndex' = 0
       /\ currentTrack' = At(playlist, 0)
       /\ aSrc' = At(playlist, 0).url]_vars

\* C10 (amended): auto-advance does not wrap.  Ended on a track whose index
\* is below length-1 loads the track at index+1; ended on the last track
\* loads nothing and leaves the current index and track unchanged.
C10_EndedNoWrap ==
  [][handleEnded =>
       IF currentTrackIndex < Len(playlist) - 1
       THEN /\ currentTrackIndex' = currentTrackIndex + 1
            /\ currentTrack' = At(playlist, currentTrackIndex + 1)
            /\ aSrc' = currentTrack'.url
            /\ aPhase' = "loadstart"
       ELSE UNCHANGED <<currentTrackIndex, currentTrack, aSrc, aPhase,
                        aDuration, aTime>>]_vars

\* C10 witness: the last of several tracks has played to its end, its ended
\* event has been handled, and it is still the loaded track
C10_Witness ==
  /\ Len(playlist) > 1
  /\ currentTrackIndex = Len(playlist) - 1
  /\ currentTrack = At(playlist, currentTrackIndex)
  /\ aSrc = currentTrack.url
  /\ aPhase = "canplay"
  /\ EndedDelivered
  /\ ~isPlaying


\* C11 (as claimed): in every reachable state in which the duration is known,
\* the session position satisfies 0 <= currentTime <= duration, whatever
\* seek, skipForward and skipBackward were given, and also once the metadata
\* of a new track has arrived after a seek.  The duration is known when the
\* session holds the duration the element reports for its current source.
C11_PositionWithinDuration ==
  (aDuration # NaN /\ duration = aDuration)
    => (0 <= currentTime /\ currentTime <= duration)

\* C12 (as claimed): seek(time) leaves the session position and the position
\* of the element unchanged whenever no track is loaded or the element has
\* not reported the duration of the loaded source (after clearPlaylist,
\* between loadTrack and the metadata of that track).
C12_SeekNoOpWithoutDuration ==
  [][(currentTrack = NoTrack \/ aDuration = NaN)
       => \A time \in SeekTimes :
            seek(time) => UNCHANGED <<currentTime, aTime>>]_vars


\* C13: the session volume is in [0,1] (0..10 tenths) in every reachable
\* state; changeVolume(v) stores v clamped to [0,1] for every number v (no
\* step that leaves another volume is a step of changeVolume(v)), and the
\* volumechange handler stores a value inside the range.
C13_VolumeInRange ==
  /\ [](0 <= volume /\ volume <= 10)
  /\ [][\A v \in VolumeInputs \ {NaN} :
          (volume' # (IF v < 0 THEN 0 ELSE IF v > 10 THEN 10 ELSE v))
            => ~changeVolume(v)]_vars
  /\ [][handleVolumeChange => (0 <= volume' /\ volume' <= 10)]_vars

\* C13 witness: a volume from inside the range is stored, and the
\* volumechange event it queued has been handled
C13_Witness ==
  volume = 5 /\ aVolume = 5 /\ ~vcPending


\* C14: changeVolume(v) with a clamped v > 0 while muted clears the mute
\* flag (of the session and of the element), changeVolume(v) with a clamped
\* v = 0 leaves the flag as it was, and toggleMute inverts the flag at every
\* volume, so the user can mute again after the automatic unmute.
C14_UnmuteOnPositiveVolume ==
  /\ [][\A v \in VolumeInputs \ {NaN} :
          (isMuted' # (isMuted /\ v <= 0) \/ aMuted' # (aMuted /\ v <= 0))
            => ~changeVolume(v)]_vars
  /\ [][toggleMute =>
          (isMuted' = ~isMuted /\ aMuted' = ~aMuted
             /\ volume' = volume /\ aVolume' = aVolume)]_vars
  /\ [](ENABLED toggleMute)

\* C14 witness: the session is muted at a positive volume that changeVolume
\* stored (changeVolume(5) leaves the session unmuted: it was muted after)
C14_Witness ==
  isMuted /\ aMuted /\ volume = 5 /\ aVolume = 5

\* C15: the playback rate is in [0.25, 4] (25..400 hundredths) in every
\* reachable state; changePlaybackRate(r) stores r clamped to [0.25, 4] for
\* every number r and writes the same value to the element.
C15_RateInRange ==
  /\ [](25 <= playbackRate /\ playbackRate <= 400 /\ aRate = playbackRate)
  /\ [][\A r \in RateInputs \ {NaN} :
          (playbackRate' # (IF r < 25 THEN 25 ELSE IF r > 400 THEN 400 ELSE r)
             \/ aRate' # playbackRate')
            => ~changePlaybackRate(r)]_vars

\* C15 witness: a rate above the range was asked for and the upper end of
\* the range is stored in the session and in the element
C15_Witness ==
  playbackRate = 400 /\ aRate = 400

\* C16: toggleMute(), changePlaybackRate(r) and changeVolume(v) leave
\* isPlaying, isLoading, the current track, the current index, the playlist,
\* the position, the duration and the error field unchanged: no step that
\* changes one of them is a step of these commands.
C16_AttributeFrame ==
  [][(~UNCHANGED <<isPlaying, isLoading, currentTrack, currentTrackIndex,
                   playlist, currentTime, duration, error>>)
       => ~(toggleMute \/ ChangePlaybackRateCmd \/ ChangeVolumeCmd)]_vars

\* C16 witness: volume, mute and rate were changed in a session that plays
\* a track, past its start
C16_Witness ==
  /\ isPlaying /\ ~aPaused /\ currentTime > 0
  /\ isMuted /\ volume = 5 /\ playbackRate = 25


\* C17: a rejected play() attempt is handled by the catch block of play():
\* every rejection that is outstanding has that continuation to run, and
\* when it has run the error field holds a message and isPlaying is false.
C17_RejectionCaught ==
  /\ []((promises # <<>> /\ Head(promises) = "rejecting")
         => ENABLED PlayRejected)
  /\ [][PlayRejected => (error' = PlayErrorMsg /\ ~isPlaying')]_vars

\* C17 witness: a rejection was processed in a session that had a track:
\* the message is set, the session does not play, no promise is outstanding
C17_Witness ==
  /\ error = PlayErrorMsg /\ ~isPlaying /\ promises = <<>>
  /\ currentTrack # NoTrack /\ aPhase = "canplay"

\* C18 (as claimed): once the error field is set, play(), pause(), stop() and
\* seek() neither clear it nor make the session playing.
C18_ErrorTerminal ==
  [][(error # Null /\ (play \/ pause \/ StopCmd \/ SeekCmd))
       => (error' = error /\ (isPlaying' => isPlaying))]_vars

\* C18 (amended): pause(), stop() and seek() neither clear a set error nor
\* make the session playing; loadTrack clears the error, and so does play(),
\* which starts a new attempt: on a source that raised an error event the
\* attempt is rejected, otherwise it can resolve and make the session playing.
C18_ErrorClearedByLoadOrPlay ==
  /\ [][(error # Null /\ (pause \/ StopCmd \/ SeekCmd))
          => (error' = error /\ (isPlaying' => isPlaying))]_vars
  /\ [][(play \/ PlayTrackCmd) => error' = Null]_vars
  /\ [][play => (Len(promises') = Len(promises) + 1 /\ isPlaying' = isPlaying)]_vars
  /\ [][(play /\ aPhase = "error")
          => promises' = Append(promises, "rejecting")]_vars
  /\ [][(PlayResolved /\ error = Null) => (isPlaying' /\ error' = Null)]_vars

\* C18 witness: the source raised an error event (handleError set the
\* error), and a play() on the same source has cleared the field; its
\* attempt is rejected and not yet processed
C18_Witness ==
  /\ aPhase = "error" /\ error = Null /\ ~isPlaying
  /\ promises = <<"rejecting">> /\ currentTrack # NoTrack

\* C19: loadTrack(track) is accepted in every state (every track of the
\* playlist can be loaded), and every step that runs it leaves the element
\* paused with the new source assigned, isPlaying false, position 0, the
\* error cleared and the current track equal to the given track.
C19_LoadTrackFromAnyState ==
  /\ [](Len(playlist) > 0 => ENABLED LoadTrackCmd)
  /\ [][\A k \in 1..Len(playlist) :
          loadTrack(playlist[k]) =>
            /\ aPaused' /\ aSrc' = playlist[k].url /\ aTime' = 0
            /\ \A j \in DOMAIN promises' : promises'[j] # "waiting"
            /\ ~isPlaying' /\ currentTime' = 0 /\ error' = Null
            /\ currentTrack' = playlist[k]]_vars

\* C19 witness: a track was loaded over a source that had played past its
\* start (its timeupdate is still queued): the new load has begun, the
\* element is paused, the session is reset
C19_Witness ==
  /\ aPhase = "loadstart" /\ tuPending /\ aPaused /\ aTime = 0
  /\ ~isPlaying /\ currentTime = 0 /\ error = Null
  /\ currentTrack # NoTrack /\ aSrc = currentTrack.url

\* the source is loaded and the element sits paused at its start
Stopped ==
  aPhase = "canplay" /\ aPaused /\ aTime = 0 /\ currentTrack # NoTrack

\* C20: stop() resets the session position and the element position to 0,
\* pauses the element and keeps the source, the current track and the
\* current index; a play() that follows starts the element at position 0 on
\* the same source without a load, and when its promise resolves the
\* session plays.
C20_StopThenPlay ==
  /\ [][(StopCmd /\ isPlaying) =>
          /\ currentTime' = 0 /\ aTime' = 0 /\ aPaused' /\ ~isPlaying'
          /\ UNCHANGED <<currentTrack, currentTrackIndex, playlist,
                          aSrc, aPhase, aDuration>>]_vars
  /\ [][(Stopped /\ play /\ ~aPaused') =>
          /\ promises' = Append(promises, "resolving")
          /\ UNCHANGED <<aSrc, aPhase, aTime, currentTrack>>]_vars
  /\ [][(PlayResolved /\ ~aPaused) =>
          (isPlaying' /\ UNCHANGED <<aSrc, aPhase, aTime>>)]_vars

\* C20 witness: the session plays again from position 0 on a loaded source
\* while the timeupdate that stop() queued is still to be delivered
C20_Witness ==
  /\ isPlaying /\ ~aPaused /\ aPhase = "canplay"
  /\ aTime = 0 /\ currentTime = 0 /\ tuPending /\ promises = <<>>


\* C21 (as claimed): when the loadedmetadata event of the loading source is
\* processed, the session is paused at the start of the track: isLoading is
\* false, isPlaying is false, the duration is the duration of the loaded
\* source and the position is 0, whatever happened since loadTrack.
C21_MetadataMakesPaused ==
  [][handleLoadedMetadata =>
       /\ ~isLoading' /\ ~isPlaying'
       /\ duration' = DurationOf(aSrc) /\ currentTime' = 0]_vars


\* C22: processing a media error event or a rejected play sets the error
\* field and clears isPlaying, and leaves the playlist, the current index,
\* the current track, the volume, the mute flag and the playback rate
\* unchanged; while the error is set every track of the playlist can be
\* loaded with playTrack.
C22_ErrorLeavesSessionUsable ==
  /\ [][(handleError \/ PlayRejected) =>
          /\ error' # Null /\ ~isPlaying'
          /\ UNCHANGED <<playlist, currentTrackIndex, currentTrack,
                         volume, isMuted, playbackRate>>]_vars
  /\ [](error # Null =>
          \A trackIndex \in 0..(Len(playlist) - 1) :
            ENABLED (/\ playTrack(trackIndex)
                     /\ UNCHANGED <<isLoading, isBuffering, duration, playlist,
                                    attrVars, navVars, viewVars,
                                    probeVars, nextId, revoked>>))

\* C22 witness: the loaded track of a playlist of two or more raised an
\* error event: the message is set, the track is still the current one
C22_Witness ==
  /\ error = LoadErrorMsg /\ aPhase = "error" /\ ~isPlaying
  /\ Len(playlist) >= 2 /\ currentTrack = At(playlist, currentTrackIndex)


\* C27: for every length >= 1 and every current index in [0, length), in
\* linear mode the previous index of the next index is the current index and
\* the next of the previous is the current index, for getNextTrackIndex /
\* getPreviousTrackIndex and for the arithmetic of playNext / playPrevious.
C27_LinearRoundTrip ==
  (totalTracks >= 1 /\ currentIndex < totalTracks) =>
    /\ getPreviousTrackIndex(
         getNextTrackIndex(currentIndex, totalTracks, FALSE, shuffledIndices),
         totalTracks, FALSE, shuffledIndices) = currentIndex
    /\ getNextTrackIndex(
         getPreviousTrackIndex(currentIndex, totalTracks, FALSE,
                               shuffledIndices),
         totalTracks, FALSE, shuffledIndices) = currentIndex
    /\ PrevIndex(NextIndex(currentIndex, totalTracks), totalTracks)
         = currentIndex
    /\ NextIndex(PrevIndex(currentIndex, totalTracks), totalTracks)
         = currentIndex

\* C27 witness: in linear mode getNextTrackIndex was called at the last
\* index of a playlist of two or more and returned the first index
C27_Witness ==
  /\ ~shuffle /\ totalTracks >= 2 /\ currentIndex = totalTracks - 1
  /\ navResult = 0

\* getNextTrackIndex in linear mode applied k times from index
RECURSIVE NextTimes(_, _, _)
NextTimes(index, total, k) ==
  IF k = 0 THEN index
  ELSE NextTimes(getNextTrackIndex(index, total, FALSE, <<>>), total, k - 1)

\* the arithmetic of playNext applied k times from index
RECURSIVE HookNextTimes(_, _, _)
HookNextTimes(index, length, k) ==
  IF k = 0 THEN index
  ELSE HookNextTimes(NextIndex(index, length), length, k - 1)

\* C28: for every length >= 1 and every start index in [0, length), the
\* linear next index applied length times visits every index of [0, length)
\* exactly once and ends at the start index; for length 1 next and previous
\* return the only index.
C28_NextCycleCoversAll ==
  totalTracks >= 1 =>
    /\ \A start \in 0..(totalTracks - 1) :
         /\ {NextTimes(start, totalTracks, k) : k \in 1..totalTracks}
              = 0..(totalTracks - 1)
         /\ NextTimes(start, totalTracks, totalTracks) = start
         /\ {HookNextTimes(start, totalTracks, k) : k \in 1..totalTracks}
              = 0..(totalTracks - 1)
         /\ HookNextTimes(start, totalTracks, totalTracks) = start
    /\ totalTracks = 1 =>
         /\ getNextTrackIndex(0, 1, FALSE, <<>>) = 0
         /\ getPreviousTrackIndex(0, 1, FALSE, <<>>) = 0
         /\ NextIndex(0, 1) = 0 /\ PrevIndex(0, 1) = 0

\* C28 witness: getNextTrackIndex was called in linear mode on a playlist of
\* one track and returned its only index
C28_Witness ==
  ~shuffle /\ totalTracks = 1 /\ currentIndex = 0 /\ navResult = 0

\* arr holds every index of [0, n) exactly once
IsPermutation(arr, n) ==
  /\ Len(arr) = n
  /\ \A x \in 0..(n - 1) : Cardinality({k \in 1..n : arr[k] = x}) = 1

\* C29: shuffleArray applied to the index list [0..length-1] returns a
\* permutation of it for every sequence of random choices (same length, every
\* index exactly once), the argument is left as it was, and every list a
\* caller builds with it is such a permutation.
C29_ShuffleIsPermutation ==
  /\ [](\A choices \in RandomChoices(totalTracks) :
          /\ IsPermutation(shuffleArray(Indices(totalTracks), choices),
                           totalTracks)
          /\ ArrayAfterShuffle(Indices(totalTracks), choices)
               = Indices(totalTracks))
  /\ [][Reshuffle => IsPermutation(shuffledIndices', totalTracks)]_vars

\* C29 witness: a list of the longest playlist was shuffled and is not in
\* the order of the index list
C29_Witness ==
  /\ totalTracks = MaxLen /\ IsPermutation(shuffledIndices, MaxLen)
  /\ shuffledIndices # Indices(MaxLen)

\* C30 (as claimed): in shuffle mode, with a shuffled list that was built for
\* the playlist length, getNextTrackIndex and getPreviousTrackIndex return an
\* index of [0, totalTracks) for every current index, also one that the list
\* does not contain.
C30_ShuffleNeverStale ==
  (shuffle /\ totalTracks >= 1 /\ IsPermutation(shuffledIndices, totalTracks))
    => /\ getNextTrackIndex(currentIndex, totalTracks, shuffle,
                            shuffledIndices) \in 0..(totalTracks - 1)
       /\ getPreviousTrackIndex(currentIndex, totalTracks, shuffle,
                                shuffledIndices) \in 0..(totalTracks - 1)


\* C23: addToPlaylist(track) appends at the tail: the new playlist is the
\* old playlist, in unchanged order and with unchanged entries, followed by
\* one entry for the new track, and the current index and the current track
\* are unchanged.
C23_AddAppendsAtTail ==
  [][\A track \in {Track(nextId)} \cup {playlist[k] : k \in 1..Len(playlist)} :
       AddTrack(track) =>
         /\ Len(playlist') = Len(playlist) + 1
         /\ SubSeq(playlist', 1, Len(playlist)) = playlist
         /\ playlist'[Len(playlist')].url = track.url
         /\ UNCHANGED <<currentTrackIndex, currentTrack>>]_vars

\* C23 witness: the first track of the playlist is loaded and the entry at
\* the tail was added for the same source
C23_Witness ==
  /\ Len(playlist) >= 2 /\ currentTrackIndex = 0
  /\ currentTrack = playlist[1]
  /\ playlist[Len(playlist)].url = playlist[1].url

\* C24 (as claimed): adding a track whose id is the id of a track of the
\* playlist fails and leaves the playlist unchanged.
C24_DuplicateIdRejected ==
  [][\A k \in 1..Len(playlist) :
       AddTrack(playlist[k]) => playlist' = playlist]_vars

\* C25: removeFromPlaylist(id) with an id that is not in the playlist leaves
\* the playlist, the current index, the current track and the transport state
\* unchanged: no step that changes the state is such a call.
C25_RemoveAbsentIsNoOp ==
  [][\A trackId \in 1..MaxTracks :
       (FindIndex(playlist, trackId) = -1 /\ removeFromPlaylist(trackId))
         => UNCHANGED vars]_vars

\* C25 witness: every id was handed out, one track was removed and its id
\* can be removed once more, while a later track is the current one
C25_Witness ==
  /\ nextId > MaxTracks /\ Len(playlist) = MaxTracks - 1
  /\ currentTrackIndex >= 1 /\ currentTrack # NoTrack /\ isPlaying
  /\ \E trackId \in 1..MaxTracks : FindIndex(playlist, trackId) = -1

\* C26 (as claimed): clearPlaylist() empties the playlist and returns the
\* length the playlist had before the call.
C26_ClearReturnsLength ==
  [][clearPlaylist =>
       (playlist' = <<>> /\ ClearPlaylistReturn = Len(playlist))]_vars


(***************************************************************************)
(* C31: in every reachable state of the hook, isPlaying = TRUE implies     *)
(* that a current track is loaded (currentTrack is not null), also when    *)
(* clearPlaylist() or loadTrack() is processed while a play() attempt is   *)
(* still pending and that attempt settles afterwards.                      *)
(***************************************************************************)
C31_PlayingImpliesTrack ==
    isPlaying => currentTrack # NoTrack


(* -------------------- tracks loaded from the playlist ------------------- *)

\* the controller when tracks are loaded only from its playlist: by
\* playTrack, playNext, playPrevious and the advance at the end of a track,
\* while tracks are added and removed
NextTracks ==
  \/ EnvNext
  \/ PlayTrackCmd
  \/ PlayNextCmd
  \/ PlayPreviousCmd
  \/ play
  \/ addToPlaylist
  \/ \E trackId \in 1..MaxTracks : removeFromPlaylist(trackId)

SpecTracks == Init /\ [][NextTracks]_vars

(***************************************************************************)
(* C32: when tracks are loaded only through playTrack, playNext,           *)
(* playPrevious and the advance at the end of a track, then after any      *)
(* sequence of those commands interleaved with addToPlaylist and           *)
(* removeFromPlaylist a current track that is not null is a member of the  *)
(* playlist and equals playlist[currentTrackIndex].                        *)
(***************************************************************************)
C32_CurrentTrackInPlaylist ==
    currentTrack # NoTrack =>
      /\ FindIndex(playlist, currentTrack.id) # -1
      /\ At(playlist, currentTrackIndex) = currentTrack


(* --------------------- previous / next of the views --------------------- *)

\* playlist.findIndex(track => track.id === currentTrack?.id): -1 when
\* there is no current track or when it is not in the playlist
SelectedIndex(pl, track) == FindIndex(pl, track.id)

\* App.handleNext: the index nextIndex it reads the playlist at
handleNext(pl, track) == (SelectedIndex(pl, track) + 1) % Len(pl)

\* App.handlePrevious: the index previousIndex it reads the playlist at
handlePrevious(pl, track) ==
  IF SelectedIndex(pl, track) = 0
  THEN Len(pl) - 1
  ELSE SelectedIndex(pl, track) - 1

\* AudioPlayer.handleNext: the index nextIndex of the track it hands to
\* onTrackChange
AudioPlayerNext(pl, track) == (SelectedIndex(pl, track) + 1) % Len(pl)

\* AudioPlayer.handlePrevious: the index prevIndex of the track it hands to
\* onTrackChange
AudioPlayerPrevious(pl, track) ==
  IF SelectedIndex(pl, track) = 0
  THEN Len(pl) - 1
  ELSE SelectedIndex(pl, track) - 1

(***************************************************************************)
(* C34: for a non-empty playlist the previous / next computations of the   *)
(* views and of the utilities select an index in [0, length), also when    *)
(* there is no valid current selection (current index -1): never a         *)
(* negative index, never an undefined track.                               *)
(***************************************************************************)
C34_NavigationIndexInRange ==
    Len(playlist) > 0 =>
      LET n == Len(playlist)
          c == SelectedIndex(playlist, currentTrack)
      IN  /\ handleNext(playlist, currentTrack) \in 0..(n - 1)
          /\ AudioPlayerNext(playlist, currentTrack) \in 0..(n - 1)
          /\ getNextTrackIndex(c, n, FALSE, <<>>) \in 0..(n - 1)
          /\ handlePrevious(playlist, currentTrack) \in 0..(n - 1)
          /\ AudioPlayerPrevious(playlist, currentTrack) \in 0..(n - 1)
          /\ getPreviousTrackIndex(c, n, FALSE, <<>>) \in 0..(n - 1)


NextLoad ==
  \/ handleLoadStart
  \/ handleLoadedMetadata
  \/ StaleLoadedMetadata
  \/ StaleDropped
  \/ handleCanPlay
  \/ handleError
  \/ PlayResolved
  \/ PlayRejected
  \/ PlayTrackCmd
  \/ play
  \/ pause
  \/ StopCmd
  \/ SeekCmd
  \/ addToPlaylist
  \/ clearPlaylist

\* the element settles the load in progress: it delivers loadedmetadata, or
\* error while it fetches the source
LoadSettles ==
  \/ handleLoadedMetadata
  \/ aPhase = "loading" /\ handleError

\* The event loop runs the loadstart task the element has queued, and the
\* element delivers loadedmetadata or error for the most recent load: a load
\* that is in progress again and again is settled at some time.
SpecLoad ==
  /\ Init
  /\ [][NextLoad]_vars
  /\ WF_vars(handleLoadStart)
  /\ SF_vars(LoadSettles)

(***************************************************************************)
(* C36: loading always ends.  The loading flag is set only while a load of *)
(* the element is in progress, and whenever it is set it eventually        *)
(* becomes false again, provided the element delivers loadedmetadata or    *)
(* error for the most recent load; no command (pause, stop, seek, adding   *)
(* to or clearing the playlist) leaves it set after that event.            *)
(***************************************************************************)
C36_LoadingEnds ==
  /\ [](isLoading => aPhase \in {"loadstart", "loading"})
  /\ isLoading ~> ~isLoading

\* C36 witness: the loading flag is set for a load that superseded an
\* earlier one, in a playlist that was cleared and filled again
C36_Witness ==
  /\ isLoading /\ aPhase = "loading" /\ staleMeta
  /\ Len(playlist) = 1 /\ nextId = 3


(* ----------------------- the AudioPlayer component ---------------------- *)

\* message of the catch of the play / pause effect
PlaybackFailedMsg == "Playback failed"

\* A render of the component with a track and a value of isPlaying handed
\* down by its parent, one of them new, and the effects of that render.  The
\* effect of [currentTrack] (AudioPlayer.js:31-87) runs when the track is
\* new: it sets the loading state, registers listeners that see the
\* isPlaying of this render, assigns the source and calls load(), which
\* pauses an element that had a source.  The effect of [isPlaying]
\* (AudioPlayer.js:90-103) runs after it when isPlaying is new: play() or
\* pause(); play() on an element in error fails before it changes paused.
Render(track, playing) ==
  LET trackChanged == track # propTrack
      playChanged == playing # propIsPlaying
      phase == IF trackChanged THEN "loading" ELSE elPhase
      loaded == IF trackChanged /\ elPhase # "empty" THEN TRUE ELSE elPaused
  IN  /\ trackChanged \/ playChanged
      /\ propTrack' = track
      /\ propIsPlaying' = playing
      /\ capturedIsPlaying' =
           IF trackChanged THEN playing ELSE capturedIsPlaying
      /\ elPhase' = phase
      /\ elTime' = IF trackChanged THEN 0 ELSE elTime
      /\ viewLoading' = IF trackChanged THEN TRUE ELSE viewLoading
      /\ viewError' = IF trackChanged THEN Null ELSE viewError
      /\ elPaused' = IF ~playChanged THEN loaded
                     ELSE IF ~playing THEN TRUE
                     ELSE IF phase = "error" THEN loaded
                     ELSE FALSE
      /\ UNCHANGED <<hookVars, attrVars, mediaVars, nextId, revoked, navVars,
                     probeVars, viewMuted, elVolume>>

RenderCmd ==
  \E track \in 1..MaxTracks, playing \in BOOLEAN : Render(track, playing)

\* handleLoadedMetadata of the component (loadeddata, which follows, sets
\* the same state)
AudioPlayerLoadedMetadata ==
  /\ elPhase = "loading"
  /\ elPhase' = "metadata"
  /\ viewLoading' = FALSE
  /\ UNCHANGED <<propTrack, propIsPlaying, capturedIsPlaying, elPaused,
                 elTime, viewError,
                 hookVars, attrVars, mediaVars, nextId, revoked, navVars,
                 probeVars, viewMuted, elVolume>>

\* handleCanPlay of the component: `if (isPlaying) audio.play()`, with the
\* isPlaying of the render that registered the listener
AudioPlayerCanPlay ==
  /\ elPhase = "metadata"
  /\ elPhase' = "canplay"
  /\ elPaused' = IF capturedIsPlaying THEN FALSE ELSE elPaused
  /\ UNCHANGED <<propTrack, propIsPlaying, capturedIsPlaying, viewLoading,
                 elTime, viewError,
                 hookVars, attrVars, mediaVars, nextId, revoked, navVars,
                 probeVars, viewMuted, elVolume>>

\* handleError of the component: the load of the source failed
AudioPlayerError ==
  /\ elPhase \in {"loading", "metadata"}
  /\ elPhase' = "error"
  /\ viewError' = LoadErrorMsg
  /\ viewLoading' = FALSE
  /\ UNCHANGED <<propTrack, propIsPlaying, capturedIsPlaying, elPaused,
                 elTime,
                 hookVars, attrVars, mediaVars, nextId, revoked, navVars,
                 probeVars, viewMuted, elVolume>>

\* the catch of the play / pause effect: the play() promise of the effect is
\* rejected because the source failed; onPlayStateChange(false) makes the
\* parent render the component with isPlaying false, and the effect pauses
AudioPlayerPlayFailed ==
  /\ elPhase = "error"
  /\ propIsPlaying
  /\ viewError' = PlaybackFailedMsg
  /\ propIsPlaying' = FALSE
  /\ elPaused' = TRUE
  /\ UNCHANGED <<propTrack, capturedIsPlaying, elPhase, viewLoading,
                 elTime,
                 hookVars, attrVars, mediaVars, nextId, revoked, navVars,
                 probeVars, viewMuted, elVolume>>

\* handleEnded of the component: the element has paused itself at the end of
\* the source; onPlayStateChange(false) makes the parent render the
\* component with isPlaying false (a new track follows in a later render)
AudioPlayerEnded ==
  /\ elPhase = "canplay"
  /\ ~elPaused
  /\ elTime = DurationOf(propTrack)
  /\ elPaused' = TRUE
  /\ propIsPlaying' = FALSE
  /\ UNCHANGED <<propTrack, capturedIsPlaying, elPhase, viewLoading,
                 elTime, viewError,
                 hookVars, attrVars, mediaVars, nextId, revoked, navVars,
                 probeVars, viewMuted, elVolume>>

\* the element of the component plays: its position advances by one unit
\* (handleTimeUpdate copies it into the state of the component)
AudioPlayerAdvance ==
  /\ elPhase = "canplay"
  /\ ~elPaused
  /\ elTime < DurationOf(propTrack)
  /\ elTime' = elTime + 1
  /\ UNCHANGED <<propTrack, propIsPlaying, capturedIsPlaying, elPhase,
                 elPaused, viewLoading, viewError,
                 hookVars, attrVars, mediaVars, nextId, revoked, navVars,
                 probeVars, viewMuted, elVolume>>

\* handleStop of the component: onPlayStateChange(false) makes the parent
\* render the component with isPlaying false, so the play / pause effect
\* pauses the element when isPlaying was true; the position is reset
AudioPlayerStop ==
  /\ propTrack # 0
  /\ propIsPlaying' = FALSE
  /\ elPaused' = IF propIsPlaying THEN TRUE ELSE elPaused
  /\ elTime' = 0
  /\ UNCHANGED <<propTrack, capturedIsPlaying, elPhase, viewLoading,
                 viewError,
                 hookVars, attrVars, mediaVars, nextId, revoked, navVars,
                 probeVars, viewMuted, elVolume>>

\* handleMuteToggle of the component and the volume effect that follows
\* the change of isMuted: `audio.volume = isMuted ? 0 : volume`, with the
\* volume state at its initial value 1
AudioPlayerMuteToggle ==
  /\ propTrack # 0
  /\ viewMuted' = ~viewMuted
  /\ elVolume' = IF ~viewMuted THEN 0 ELSE 10
  /\ UNCHANGED <<propTrack, propIsPlaying, capturedIsPlaying, elPhase,
                 elPaused, elTime, viewLoading, viewError,
                 hookVars, attrVars, mediaVars, nextId, revoked, navVars,
                 probeVars>>

NextView ==
  \/ AudioPlayerMuteToggle
  \/ AudioPlayerAdvance
  \/ AudioPlayerStop
  \/ AudioPlayerLoadedMetadata
  \/ AudioPlayerCanPlay
  \/ AudioPlayerError
  \/ AudioPlayerPlayFailed
  \/ AudioPlayerEnded
  \/ RenderCmd

SpecView == Init /\ [][NextView]_vars

(***************************************************************************)
(* C33: in the AudioPlayer component the media element is started only     *)
(* while the isPlaying prop is true: when isPlaying turns false (pause)    *)
(* after a track change and before the canplay event of that track, the    *)
(* canplay handler registered at the track change does not call play(), so *)
(* the element is never running while isPlaying is false.                  *)
(***************************************************************************)
C33_StartedOnlyWhilePlaying ==
    ~elPaused => propIsPlaying


(* --------------------------- extractMetadata ---------------------------- *)

\* largest size and largest duration of the files handed to extractMetadata
MaxSize == 2

MaxDuration == 2

\* file names, as sequences of characters: with an extension, without one,
\* with a trailing dot, and with nothing before the extension
FileNames ==
  { <<"a">>, <<"a", ".", "m">>, <<"a", ".">>, <<".", "m">> }

\* the File objects of the model; duration is what the probe element
\* reports for the file when it can read it
Files ==
  [name : FileNames, size : 1..MaxSize, type : {"", "audio/wav"},
   duration : 1..MaxDuration]

\* file.name.replace(/\.[^/.]+$/, ''): a last dot that is followed by one or
\* more characters other than '/' is removed with all that follows it
StripExtension(name) ==
  LET dots == {k \in 1..Len(name) : name[k] = "."}
  IN  IF dots = {} THEN name
      ELSE LET last == CHOOSE k \in dots : \A j \in dots : j <= k
           IN  IF /\ last < Len(name)
                  /\ \A j \in (last + 1)..Len(name) : name[j] # "/"
               THEN SubSeq(name, 1, last - 1)
               ELSE name

\* createAudioUrl(file): URL.createObjectURL gives a blob: URL that no track
\* of the playlist has
createAudioUrl(f) == MaxTracks + 1 + f.size

\* the metadata object built by onLoad and onError (lastModified is copied
\* like size); d is the duration it records
MetadataOf(f, d) ==
  [name |-> StripExtension(f.name),
   size |-> f.size,
   type |-> IF f.type = "" THEN "audio/mpeg" ELSE f.type,
   duration |-> d]

\* mutant of cleanup: the error listener stays registered
cleanup_KeepsErrorListener ==
  /\ revokeAudioUrl(probeUrl)
  /\ listeners' = listeners \ {"loadedmetadata"}

\* cleanup(): revoke the object URL and remove both listeners
cleanup ==
  /\ revokeAudioUrl(probeUrl)
  /\ listeners' = {}

\* resolve(value): the first call fulfils the promise, a later call has no
\* effect on it
resolve(value) ==
  /\ resolveCalls' = resolveCalls + 1
  /\ metadata' = IF resolveCalls = 0 THEN value ELSE metadata

\* onLoad: the metadata with the duration of the probe element
onLoad ==
  /\ cleanup
  /\ resolve(MetadataOf(file, file.duration))

\* onError: the metadata with duration 0
onError ==
  /\ cleanup
  /\ resolve(MetadataOf(file, 0))

\* the call extractMetadata(file): the executor of the promise creates the
\* probe element and the object URL, registers both listeners and assigns
\* the source
ExtractMetadata ==
  /\ probePhase = "idle"
  /\ file # NoFile
  /\ probeUrl' = createAudioUrl(file)
  /\ listeners' = {"loadedmetadata", "error"}
  /\ probePhase' = "loading"
  /\ UNCHANGED <<hookVars, attrVars, mediaVars, nextId, revoked, navVars,
                 viewVars, file, resolveCalls, metadata>>

\* the probe element reports loadedmetadata
ProbeLoadedMetadata ==
  /\ probePhase = "loading"
  /\ probePhase' = "metadata"
  /\ IF "loadedmetadata" \in listeners
     THEN onLoad
     ELSE UNCHANGED <<revoked, listeners, resolveCalls, metadata>>
  /\ UNCHANGED <<hookVars, attrVars, mediaVars, nextId, navVars, viewVars,
                 file, probeUrl>>

\* the probe element reports error: the file cannot be read, or what
\* follows its metadata cannot be fetched any more
ProbeError ==
  /\ probePhase \in {"loading", "metadata"}
  /\ probePhase' = "error"
  /\ IF "error" \in listeners
     THEN onError
     ELSE UNCHANGED <<revoked, listeners, resolveCalls, metadata>>
  /\ UNCHANGED <<hookVars, attrVars, mediaVars, nextId, navVars, viewVars,
                 file, probeUrl>>

\* extractMetadata is handed one of the files
ProbeInit ==
  /\ HookInit
  /\ AudioPlayerInit
  /\ ProbeIdle
  /\ currentIndex = 0
  /\ totalTracks = 0
  /\ shuffle = FALSE
  /\ shuffledIndices = <<>>
  /\ navResult = NoResult
  /\ file \in Files

NextProbe ==
  \/ ExtractMetadata
  \/ ProbeLoadedMetadata
  \/ ProbeError

SpecProbe == ProbeInit /\ [][NextProbe]_vars

(***************************************************************************)
(* C37: extractMetadata(file) resolves exactly once, whether the probe     *)
(* element reports loadedmetadata or error: until the first event nothing  *)
(* is resolved or revoked; from the first event on resolve was called      *)
(* once, the promise holds the metadata of that event (the duration of the *)
(* file, or 0 after error), the object URL it created was revoked once and *)
(* no listener is left, so that a later event of the other kind changes    *)
(* neither the promise nor the revocations.  The executor has no path that *)
(* rejects.                                                                *)
(***************************************************************************)
C37_ResolvesAndCleansUpOnce ==
  /\ [](probePhase \in {"idle", "loading"} =>
          /\ resolveCalls = 0
          /\ metadata = NoMetadata
          /\ revoked = EmptyBag)
  /\ [](probePhase \in {"metadata", "error"} =>
          /\ resolveCalls = 1
          /\ metadata \in {MetadataOf(file, file.duration),
                           MetadataOf(file, 0)}
          /\ probePhase = "metadata" => metadata.duration = file.duration
          /\ revoked = SetToBag({probeUrl})
          /\ listeners = {})
  /\ [][(~UNCHANGED <<revoked, resolveCalls, metadata>>)
          => probePhase = "loading"]_vars

\* C37 witness: the probe reported loadedmetadata and error after it; the
\* promise holds the metadata of the first event, with the extension of the
\* file name removed
C37_Witness ==
  /\ probePhase = "error"
  /\ resolveCalls = 1
  /\ metadata.duration = MaxDuration
  /\ file.name = <<"a", ".", "m">> /\ metadata.name = <<"a">>
  /\ CopiesIn(probeUrl, revoked) = 1

=============================================================================
